---------------------------- MODULE Spec2Model ----------------------------
(***************************************************************************)
(* Model of pde_superresolution/equations.py (the equation classes and the *)
(* fixed first-difference operator) and of the Beam pipeline built by      *)
(* pde_superresolution/scripts/create_baseline_data.py.                    *)
(*                                                                         *)
(* Real numbers are exact rationals <<numerator, denominator>> in lowest   *)
(* terms with a positive denominator; arrays are sequences of rationals.   *)
(* Python indexes from 0, sequences here from 1.                           *)
(***************************************************************************)
EXTENDS Integers, Sequences, FiniteSets, TLC

VARIABLES
    eq,          \* the equation-level call being evaluated: its operation and arguments
    eq_out,      \* what that call returned or raised
    pc,          \* main(): "flags" | "running" | "written" | "failed"
    FLAGS,       \* the parsed command-line flags
    attrs,       \* what the class attributes read by the driver evaluate to
    times,       \* integrate_baseline's default `times`, fixed when main() defines it
    exact_filter_interval,  \* main()'s local of that name
    seeds,       \* elements of beam.Create not yet expanded by the FlatMap
    task_pc,     \* position of every (seed, accuracy_order) element in the Map
    checked,     \* tasks whose `assert equation.CONSERVATIVE` was evaluated and passed
    integrated,  \* the integrator calls made: task and arguments
    failure,     \* where the run failed, once pc = "failed"
    results,     \* outputs of the Map not yet added to a per-key accumulator
    acc1,        \* CombinePerKey: the open accumulators of every key
    combined1,   \* CombinePerKey outputs not yet sorted
    sorted1,     \* sorted per-sample datasets not yet added to a global accumulator
    acc2,        \* CombineGlobally: the open accumulators
    combined2,   \* CombineGlobally output not yet sorted
    sorted2,     \* the sorted dataset not yet written
    output       \* what write_netcdf was handed

eq_vars == <<eq, eq_out>>
pipe_vars == <<pc, FLAGS, attrs, times, exact_filter_interval, seeds, task_pc,
               checked, integrated, failure, results, acc1, combined1, sorted1,
               acc2, combined2, sorted2, output>>
vars == <<eq, eq_out, pc, FLAGS, attrs, times, exact_filter_interval, seeds,
          task_pc, checked, integrated, failure, results, acc1, combined1,
          sorted1, acc2, combined2, sorted2, output>>

-----------------------------------------------------------------------------
(* Bounds of the model.                                                    *)

\* largest number of grid points of the arrays handed to equation_of_motion
MaxPoints == 2
\* largest number of grid points of the arrays handed to the other operations
MaxFluxPoints == 3
\* largest --num_samples
MaxSamples == 2
\* longest --accuracy_orders list
MaxOrders == 2
\* largest number of (seed, accuracy_order) tasks of a run
MaxTasks == 4
\* largest --time_max, in ticks
MaxTime == 2
\* largest --time_delta, in ticks
MaxDelta == 2

-----------------------------------------------------------------------------
(* Exact rational arithmetic.                                              *)

Abs(n) == IF n < 0 THEN -n ELSE n

RECURSIVE GCD(_, _)
GCD(a, b) == IF b = 0 THEN a ELSE GCD(b, a % b)

Rat(n, d) ==
    LET g == GCD(Abs(n), Abs(d))
        s == IF d < 0 THEN -1 ELSE 1
    IN  <<(s * n) \div g, (s * d) \div g>>

RInt(n) == <<n, 1>>
RAdd(a, b) == Rat(a[1] * b[2] + b[1] * a[2], a[2] * b[2])
RNeg(a) == <<-a[1], a[2]>>
RSub(a, b) == RAdd(a, RNeg(b))
RMul(a, b) == Rat(a[1] * b[1], a[2] * b[2])
RDiv(a, b) == Rat(a[1] * b[2], a[2] * b[1])

\* elementwise array arithmetic (numpy broadcasting of a scalar with an array)
AAdd(y, z) == [i \in 1..Len(y) |-> RAdd(y[i], z[i])]
ASub(y, z) == [i \in 1..Len(y) |-> RSub(y[i], z[i])]
AMul(y, z) == [i \in 1..Len(y) |-> RMul(y[i], z[i])]
AScale(c, y) == [i \in 1..Len(y) |-> RMul(c, y[i])]
ANeg(y) == [i \in 1..Len(y) |-> RNeg(y[i])]
ASquare(y) == AMul(y, y)

RECURSIVE ASum(_)
ASum(y) == IF y = <<>> THEN RInt(0) ELSE RAdd(Head(y), ASum(Tail(y)))

\* np.roll(y, shift) of a one-dimensional array: element i moves to i + shift
Roll(y, shift) ==
    [i \in 1..Len(y) |-> y[((i - 1 - shift) % Len(y)) + 1]]

\* the arrays of n points with elements in S
Arrays(S, n) == [1..n -> S]

-----------------------------------------------------------------------------
(* The class hierarchy of equations.py.                                    *)

Classes == {"Equation", "BurgersEquation", "ConservativeBurgersEquation",
            "KdVEquation", "ConservativeKdVEquation",
            "KSEquation", "ConservativeKSEquation"}

ConcreteClasses == Classes \ {"Equation"}

\* the base named in each class statement
Base(cls) ==
    CASE cls = "Equation" -> "object"
      [] cls = "BurgersEquation" -> "Equation"
      [] cls = "ConservativeBurgersEquation" -> "BurgersEquation"
      [] cls = "KdVEquation" -> "Equation"
      [] cls = "ConservativeKdVEquation" -> "KdVEquation"
      [] cls = "KSEquation" -> "Equation"
      [] cls = "ConservativeKSEquation" -> "KSEquation"

\* the names bound in each class body
ClassBody(cls) ==
    CASE cls = "Equation" ->
            {"GRID_OFFSET", "DERIVATIVE_ORDERS", "__init__", "initial_value",
             "time_step", "standard_deviation", "equation_of_motion",
             "finalize_time_derivative"}
      [] cls = "BurgersEquation" ->
            {"GRID_OFFSET", "DERIVATIVE_ORDERS", "__init__", "initial_value",
             "time_step", "standard_deviation", "equation_of_motion",
             "finalize_time_derivative"}
      [] cls = "ConservativeBurgersEquation" ->
            {"GRID_OFFSET", "DERIVATIVE_ORDERS", "equation_of_motion"}
      [] cls = "KdVEquation" ->
            {"GRID_OFFSET", "DERIVATIVE_ORDERS", "__init__", "initial_value",
             "time_step", "standard_deviation", "equation_of_motion",
             "finalize_time_derivative"}
      [] cls = "ConservativeKdVEquation" ->
            {"GRID_OFFSET", "DERIVATIVE_ORDERS", "equation_of_motion"}
      [] cls = "KSEquation" ->
            {"GRID_OFFSET", "DERIVATIVE_ORDERS", "__init__", "initial_value",
             "time_step", "standard_deviation", "equation_of_motion",
             "finalize_time_derivative"}
      [] cls = "ConservativeKSEquation" ->
            {"GRID_OFFSET", "DERIVATIVE_ORDERS", "equation_of_motion"}

\* Python attribute lookup along the (single-inheritance) method resolution
\* order: the class whose body binds `name`, or "AttributeError"
RECURSIVE Resolve(_, _)
Resolve(cls, name) ==
    IF cls = "object" THEN "AttributeError"
    ELSE IF name \in ClassBody(cls) THEN cls
    ELSE Resolve(Base(cls), name)

DERIVATIVE_ORDERS(cls) ==
    LET owner == Resolve(cls, "DERIVATIVE_ORDERS")
    IN  CASE owner = "BurgersEquation" -> <<1, 2>>
          [] owner = "ConservativeBurgersEquation" -> <<0, 1>>
          [] owner = "KdVEquation" -> <<1, 3>>
          [] owner = "ConservativeKdVEquation" -> <<0, 2>>
          [] owner = "KSEquation" -> <<1, 2, 4>>
          [] owner = "ConservativeKSEquation" -> <<0, 1, 3>>
          [] OTHER -> <<>>

GRID_OFFSET(cls) ==
    LET owner == Resolve(cls, "GRID_OFFSET")
    IN  CASE owner \in {"BurgersEquation", "KdVEquation", "KSEquation"} -> "CENTERED"
          [] owner \in {"ConservativeBurgersEquation", "ConservativeKdVEquation",
                        "ConservativeKSEquation"} -> "STAGGERED"
          [] OTHER -> "Ellipsis"

EQUATION_TYPES(name) ==
    CASE name = "burgers" -> "BurgersEquation"
      [] name = "kdv" -> "KdVEquation"
      [] name = "ks" -> "KSEquation"

CONSERVATIVE_EQUATION_TYPES(name) ==
    CASE name = "burgers" -> "ConservativeBurgersEquation"
      [] name = "kdv" -> "ConservativeKdVEquation"
      [] name = "ks" -> "ConservativeKSEquation"

EquationNames == {"burgers", "kdv", "ks"}

\* from_hparams(hparams)
from_hparams(conservative, equation) ==
    IF conservative THEN CONSERVATIVE_EQUATION_TYPES(equation)
    ELSE EQUATION_TYPES(equation)


-----------------------------------------------------------------------------
(* Results of a call: a value, or the exception raised.                    *)

Ok(v) == [status |-> "ok", value |-> v]
Raise(e) == [status |-> e, value |-> <<>>]

\* spatial_derivatives[k] is evaluable exactly when k is a key of the mapping
HasKeys(sd, keys) == keys \subseteq DOMAIN sd

-----------------------------------------------------------------------------
(* equations.py: the fixed first difference and the equations of motion.   *)
(* An equation instance is [cls, dx, eta]; eta is only set by Burgers.     *)

\* a backward difference: y minus its periodic predecessor
FixedFirstDerivative_Backward(y, dx) ==
    LET n == Len(y)
        y_backward == SubSeq(y, n, n) \o SubSeq(y, 1, n - 1)
    IN  AScale(RDiv(RInt(1), dx), ASub(y, y_backward))

\* _fixed_first_derivative with the periodic wrap dropped: the last element
\* is differenced against itself
FixedFirstDerivative_NoWrap(y, dx) ==
    LET n == Len(y)
        y_forward == SubSeq(y, 2, n) \o SubSeq(y, n, n)
    IN  AScale(RDiv(RInt(1), dx), ASub(y_forward, y))

\* _fixed_first_derivative(y, dx):
\*   y_forward = concat([y[..., 1:], y[..., :1]], axis=-1)
\*   return (1 / dx) * (y_forward - y)
FixedFirstDerivative(y, dx) ==
    LET y_forward == SubSeq(y, 2, Len(y)) \o SubSeq(y, 1, 1)
    IN  AScale(RDiv(RInt(1), dx), ASub(y_forward, y))

\* BurgersEquation.equation_of_motion
BurgersEquationOfMotion(self, y, sd) ==
    IF ~HasKeys(sd, {1}) THEN Raise("KeyError")
    ELSE IF ~HasKeys(sd, {2}) THEN Raise("KeyError")
    ELSE LET y_x == sd[1]
             y_xx == sd[2]
         IN  Ok(ASub(AScale(self.eta, y_xx), AMul(y, y_x)))

\* ConservativeBurgersEquation.equation_of_motion
ConservativeBurgersEquationOfMotion(self, y_unused, sd) ==
    IF ~HasKeys(sd, {0}) THEN Raise("KeyError")
    ELSE IF ~HasKeys(sd, {1}) THEN Raise("KeyError")
    ELSE LET y == sd[0]
             y_x == sd[1]
             flux == ASub(AScale(self.eta, y_x), AScale(Rat(1, 2), ASquare(y)))
         IN  Ok(FixedFirstDerivative(flux, self.dx))

\* KdVEquation.equation_of_motion
KdVEquationOfMotion(self, y, sd) ==
    IF ~HasKeys(sd, {1}) THEN Raise("KeyError")
    ELSE IF ~HasKeys(sd, {3}) THEN Raise("KeyError")
    ELSE LET y_x == sd[1]
             y_xxx == sd[3]
         IN  Ok(ASub(AMul(AScale(RInt(-6), y), y_x), y_xxx))

\* ConservativeKdVEquation.equation_of_motion reading the first derivative
\* where the code reads the second
ConservativeKdVEquationOfMotion_WrongKey(self, y_unused, sd) ==
    IF ~HasKeys(sd, {0}) THEN Raise("KeyError")
    ELSE IF ~HasKeys(sd, {1}) THEN Raise("KeyError")
    ELSE LET y == sd[0]
             y_xx == sd[1]
             flux == ASub(AScale(RInt(-3), ASquare(y)), y_xx)
         IN  Ok(FixedFirstDerivative(flux, self.dx))

\* ConservativeKdVEquation.equation_of_motion
ConservativeKdVEquationOfMotion(self, y_unused, sd) ==
    IF ~HasKeys(sd, {0}) THEN Raise("KeyError")
    ELSE IF ~HasKeys(sd, {2}) THEN Raise("KeyError")
    ELSE LET y == sd[0]
             y_xx == sd[2]
             flux == ASub(AScale(RInt(-3), ASquare(y)), y_xx)
         IN  Ok(FixedFirstDerivative(flux, self.dx))

\* KSEquation.equation_of_motion
KSEquationOfMotion(self, y, sd) ==
    IF ~HasKeys(sd, {1}) THEN Raise("KeyError")
    ELSE IF ~HasKeys(sd, {2}) THEN Raise("KeyError")
    ELSE IF ~HasKeys(sd, {4}) THEN Raise("KeyError")
    ELSE LET y_x == sd[1]
             y_xx == sd[2]
             y_xxxx == sd[4]
         IN  Ok(ASub(ASub(AMul(ANeg(y), y_x), y_xxxx), y_xx))

\* ConservativeKSEquation.equation_of_motion
ConservativeKSEquationOfMotion(self, y_unused, sd) ==
    IF ~HasKeys(sd, {0}) THEN Raise("KeyError")
    ELSE IF ~HasKeys(sd, {1}) THEN Raise("KeyError")
    ELSE IF ~HasKeys(sd, {3}) THEN Raise("KeyError")
    ELSE LET y == sd[0]
             y_x == sd[1]
             y_xxx == sd[3]
             flux == ASub(ASub(AScale(Rat(-1, 2), ASquare(y)), y_xxx), y_x)
         IN  Ok(FixedFirstDerivative(flux, self.dx))

\* self.equation_of_motion(y, spatial_derivatives), dispatched on type(self)
EquationOfMotion(self, y, sd) ==
    LET owner == Resolve(self.cls, "equation_of_motion")
    IN  CASE owner = "BurgersEquation" -> BurgersEquationOfMotion(self, y, sd)
          [] owner = "ConservativeBurgersEquation" ->
                ConservativeBurgersEquationOfMotion(self, y, sd)
          [] owner = "KdVEquation" -> KdVEquationOfMotion(self, y, sd)
          [] owner = "ConservativeKdVEquation" ->
                ConservativeKdVEquationOfMotion(self, y, sd)
          [] owner = "KSEquation" -> KSEquationOfMotion(self, y, sd)
          [] owner = "ConservativeKSEquation" ->
                ConservativeKSEquationOfMotion(self, y, sd)
          [] OTHER -> Raise("NotImplementedError")

-----------------------------------------------------------------------------
(* equations.py: finalize_time_derivative.                                 *)

\* BurgersEquation.finalize_time_derivative; forcing_tx is the value of
\* self.forcing(t, self.x)
BurgersFinalize(t, y_t, forcing_tx) == AAdd(y_t, forcing_tx)

\* a finalize_time_derivative that returns its argument
KdVFinalize_Identity(t, y_t) == y_t

\* KdVEquation.finalize_time_derivative:
\*   0.25 * np.roll(y_t, -1) + 0.5 * y_t + 0.25 * np.roll(y_t, 1)
KdVFinalize(t, y_t) ==
    AAdd(AAdd(AScale(Rat(1, 4), Roll(y_t, -1)), AScale(Rat(1, 2), y_t)),
         AScale(Rat(1, 4), Roll(y_t, 1)))

\* KSEquation.finalize_time_derivative
KSFinalize(t, y_t) == y_t

\* self.finalize_time_derivative(t, y_t), dispatched on type(self)
FinalizeTimeDerivative(self, t, y_t, forcing_tx) ==
    LET owner == Resolve(self.cls, "finalize_time_derivative")
    IN  CASE owner = "BurgersEquation" -> Ok(BurgersFinalize(t, y_t, forcing_tx))
          [] owner = "KdVEquation" -> Ok(KdVFinalize(t, y_t))
          [] owner = "KSEquation" -> Ok(KSFinalize(t, y_t))
          [] OTHER -> Raise("NotImplementedError")

-----------------------------------------------------------------------------
(* Calls into equations.py with bounded arguments.                         *)

\* element values of the arrays handed to equation_of_motion
Vals == {RInt(-1), RInt(2)}
\* element values of the arrays handed to the other two operations
WideVals == {RInt(-2), RInt(0), RInt(1), Rat(1, 2)}
\* grid spacings dx = period / num_points
DxVals == {Rat(1, 2), RInt(2)}
\* BurgersEquation's default eta = 0.04
DefaultEta == Rat(1, 25)
TVals == {RInt(0), RInt(1)}

Range(s) == {s[i] : i \in DOMAIN s}

\* the derivative orders any variant declares, and the mappings over them
\* with at most as many keys as a variant declares
DerivKeys == UNION {Range(DERIVATIVE_ORDERS(c)) : c \in ConcreteClasses}
KeySets ==
    {D \in SUBSET DerivKeys :
        \E c \in ConcreteClasses : Cardinality(D) <= Len(DERIVATIVE_ORDERS(c))}

NoCall == [op |-> "none", cls |-> "none", dx |-> RInt(1), t |-> RInt(0),
           y |-> <<>>, sd |-> <<>>, forcing_tx |-> <<>>]

Instance(cls, dx) == [cls |-> cls, dx |-> dx, eta |-> DefaultEta]

InitEq == eq = NoCall /\ eq_out = Raise("none")

CallEquationOfMotion ==
    /\ eq.op = "none"
    /\ UNCHANGED pipe_vars
    /\ \E cls \in Classes, n \in 1..MaxPoints, D \in KeySets, dx \in DxVals :
         \E y \in Arrays(Vals, n), sd \in [D -> Arrays(Vals, n)] :
            /\ eq' = [NoCall EXCEPT !.op = "equation_of_motion", !.cls = cls,
                                    !.dx = dx, !.y = y, !.sd = sd]
            /\ eq_out' = EquationOfMotion(Instance(cls, dx), y, sd)

CallFinalizeTimeDerivative ==
    /\ eq.op = "none"
    /\ UNCHANGED pipe_vars
    /\ \E cls \in Classes, n \in 1..MaxFluxPoints, t \in TVals :
         \E y_t \in Arrays(WideVals, n), f \in Arrays(Vals, n) :
            /\ eq' = [NoCall EXCEPT !.op = "finalize_time_derivative",
                                    !.cls = cls, !.t = t, !.y = y_t,
                                    !.forcing_tx = f]
            /\ eq_out' = FinalizeTimeDerivative(Instance(cls, RInt(1)), t, y_t, f)

CallFixedFirstDerivative ==
    /\ eq.op = "none"
    /\ UNCHANGED pipe_vars
    /\ \E n \in 1..MaxFluxPoints, dx \in DxVals :
         \E flux \in Arrays(WideVals, n) :
            /\ eq' = [NoCall EXCEPT !.op = "_fixed_first_derivative",
                                    !.dx = dx, !.y = flux]
            /\ eq_out' = Ok(FixedFirstDerivative(flux, dx))


-----------------------------------------------------------------------------
(* create_baseline_data.py: flags and what main() computes from them.      *)
(* Times are whole numbers of a common tick, so np.arange is exact.        *)

\* --time_max and --time_delta as the flag definitions default them
DefaultTimeMax == 10
DefaultTimeDelta == 1
\* --accuracy_orders as the flag definition defaults it
DefaultAccuracyOrders == <<1, 3>>
\* the accuracy orders a list is drawn from
OrderVals == {1, 3, 5}

\* --equation_kwargs after json.loads: keyword |-> the JSON type of its value
KwargsDefault == [num_points |-> "int"]
KwargsUnknownKey == [num_points |-> "int", resolution |-> "int"]
KwargsStrNumPoints == [num_points |-> "str"]
KwargsStrEta == [num_points |-> "int", eta |-> "str"]
KwargsSeed == [num_points |-> "int", random_seed |-> "int"]
KwargsChoices == {KwargsDefault, KwargsUnknownKey, KwargsStrNumPoints,
                  KwargsStrEta, KwargsSeed}

\* ceil(a / b) for b > 0
CeilDiv(a, b) == -((-a) \div b)

\* np.arange(start, stop, step) for step > 0
Arange(start, stop, step) ==
    LET n == IF stop > start THEN CeilDiv(stop - start, step) ELSE 0
    IN  [i \in 1..n |-> start + (i - 1) * step]

\* the keyword parameters of the __init__ a class resolves to, after `self`
InitParams(cls) ==
    LET owner == Resolve(cls, "__init__")
    IN  IF owner = "BurgersEquation"
        THEN {"num_points", "period", "random_seed", "eta"}
        ELSE {"num_points", "period", "random_seed"}

\* a constructor that accepts any keyword mapping
CreateEquation_AcceptAll(name, seed, kwargs) ==
    Ok([cls |-> CONSERVATIVE_EQUATION_TYPES(name), seed |-> seed,
        eta |-> IF "eta" \in DOMAIN kwargs THEN kwargs["eta"] ELSE "float"])

\* create_equation(seed): equation_type(random_seed=seed, **kwargs).
\* The call raises TypeError for a keyword the signature lacks, for
\* random_seed given twice and for num_points missing; Equation.__init__
\* raises it in period / num_points when either is not a number.  eta is
\* stored as given.
CreateEquation(name, seed, kwargs) ==
    LET equation_type == CONSERVATIVE_EQUATION_TYPES(name)
        keys == DOMAIN kwargs
    IN  IF \/ ~(keys \subseteq InitParams(equation_type))
           \/ "random_seed" \in keys
           \/ "num_points" \notin keys
        THEN Raise("TypeError")
        ELSE IF \/ kwargs["num_points"] = "str"
                \/ ("period" \in keys /\ kwargs["period"] = "str")
        THEN Raise("TypeError")
        ELSE Ok([cls |-> equation_type, seed |-> seed,
                 eta |-> IF "eta" \in keys THEN kwargs["eta"] ELSE "float"])

\* `assert equation.CONSERVATIVE` given what the attribute lookup evaluates to
AssertConservative(value) ==
    CASE value = "True" -> Ok(<<>>)
      [] value = "False" -> Raise("AssertionError")
      [] OTHER -> Raise("AttributeError")

\* the labeled array the integrator returns for an equation and an accuracy
\* order: a term naming what it was computed from
Solution(equation, accuracy_order) ==
    [cls |-> equation.cls, seed |-> equation.seed, order |-> accuracy_order]

\* integrate.integrate_baseline: it evaluates equation_of_motion, in which the
\* Burgers classes multiply by self.eta
IntegrateBaseline(equation, accuracy_order) ==
    IF /\ Resolve(equation.cls, "equation_of_motion")
            \in {"BurgersEquation", "ConservativeBurgersEquation"}
       /\ equation.eta = "str"
    THEN Raise("TypeError")
    ELSE Ok(Solution(equation, accuracy_order))

\* what a class attribute lookup gives with the class bodies as they stand
AsGiven(cls, name) ==
    IF Resolve(cls, name) = "AttributeError" THEN "AttributeError" ELSE "bound"

\* equations.py binds neither CONSERVATIVE nor EXACT_METHOD in any class body,
\* so with the classes as they stand both lookups raise AttributeError.  The
\* driver reads both; attrs ranges over what the lookups can evaluate to, the
\* result for the classes as they stand included.
ConservativeValues(name) ==
    {AsGiven(CONSERVATIVE_EQUATION_TYPES(name), "CONSERVATIVE"), "False", "True"}
ExactMethodValues(name) ==
    {AsGiven(EQUATION_TYPES(name), "EXACT_METHOD"), "POLYNOMIAL", "SPECTRAL"}

NoFailure == [stage |-> "none", task |-> <<>>, error |-> "none"]
None == [set |-> FALSE, value |-> 0]

\* the state when main() is entered with the flags parsed
InitPipe(names, kwargs, conservatives, exacts, intervals, time_maxes, deltas, samples, order_lists) ==
    /\ pc = "flags"
    /\ FLAGS \in [equation_name : names, equation_kwargs : kwargs,
                  num_samples : samples, time_max : time_maxes,
                  time_delta : deltas, accuracy_orders : order_lists,
                  exact_filter_interval : intervals]
    /\ FLAGS.num_samples * Len(FLAGS.accuracy_orders) <= MaxTasks
    /\ attrs \in [CONSERVATIVE : conservatives, EXACT_METHOD : exacts]
    /\ attrs.CONSERVATIVE \in ConservativeValues(FLAGS.equation_name)
    /\ attrs.EXACT_METHOD \in ExactMethodValues(FLAGS.equation_name)
    /\ times = <<>>
    /\ exact_filter_interval = None
    /\ seeds = {}
    /\ task_pc = <<>>
    /\ checked = {}
    /\ integrated = {}
    /\ failure = NoFailure
    /\ results = {}
    /\ acc1 = {}
    /\ combined1 = {}
    /\ sorted1 = {}
    /\ acc2 = {}
    /\ combined2 = {}
    /\ sorted2 = {}
    /\ output = <<>>

\* main() up to runner.run: the exact-filter branch, the default `times` of
\* integrate_baseline, and beam.Create(list(range(num_samples)))
Main ==
    /\ pc = "flags"
    /\ IF attrs.EXACT_METHOD = "AttributeError"
       THEN /\ pc' = "failed"
            /\ failure' = [stage |-> "main", task |-> <<>>,
                           error |-> "AttributeError"]
            /\ UNCHANGED <<times, exact_filter_interval, seeds>>
       ELSE /\ pc' = "running"
            /\ exact_filter_interval' =
                 IF attrs.EXACT_METHOD = "SPECTRAL" /\ FLAGS.exact_filter_interval # 0
                 THEN [set |-> TRUE, value |-> FLAGS.exact_filter_interval]
                 ELSE None
            /\ times' = Arange(0, FLAGS.time_max + FLAGS.time_delta, FLAGS.time_delta)
            /\ seeds' = 0..(FLAGS.num_samples - 1)
            /\ UNCHANGED failure
    /\ UNCHANGED <<eq, eq_out, FLAGS, attrs, task_pc, checked, integrated, results, acc1,
                   combined1, sorted1, acc2, combined2, sorted2, output>>

\* a FlatMap that emits only the first accuracy order of a seed
TasksOf_FirstOnly(seed) == {<<seed, 1>>}

\* the elements the FlatMap emits for a seed: one per position of the list
TasksOf(seed) == {<<seed, i>> : i \in 1..Len(FLAGS.accuracy_orders)}
AccuracyOrderOf(task) == FLAGS.accuracy_orders[task[2]]

\* beam.FlatMap(lambda seed: [(seed, accuracy) for accuracy in accuracy_orders])
FlatMap(seed) ==
    /\ pc = "running"
    /\ seed \in seeds
    /\ seeds' = seeds \ {seed}
    /\ task_pc' = [t \in DOMAIN task_pc \cup TasksOf(seed) |->
                     IF t \in DOMAIN task_pc THEN task_pc[t] ELSE "queued"]
    /\ UNCHANGED <<eq, eq_out, pc, FLAGS, attrs, times, exact_filter_interval, checked,
                   integrated, failure, results, acc1, combined1, sorted1,
                   acc2, combined2, sorted2, output>>

Fail(stage, task, error) ==
    /\ pc' = "failed"
    /\ failure' = [stage |-> stage, task |-> task, error |-> error]

\* create_equation_and_integrate, line `equation = create_equation(seed)`
TaskCreateEquation(task) ==
    /\ pc = "running"
    /\ task \in DOMAIN task_pc
    /\ task_pc[task] = "queued"
    /\ LET r == CreateEquation(FLAGS.equation_name, task[1], FLAGS.equation_kwargs)
       IN  IF r.status = "ok"
           THEN /\ task_pc' = [task_pc EXCEPT ![task] = "constructed"]
                /\ UNCHANGED <<pc, failure>>
           ELSE /\ Fail("create_equation", task, r.status)
                /\ task_pc' = [task_pc EXCEPT ![task] = "raised"]
    /\ UNCHANGED <<eq, eq_out, FLAGS, attrs, times, exact_filter_interval, seeds, checked,
                   integrated, results, acc1, combined1, sorted1, acc2,
                   combined2, sorted2, output>>

\* create_equation_and_integrate, line `assert equation.CONSERVATIVE`
TaskAssertConservative(task) ==
    /\ pc = "running"
    /\ task \in DOMAIN task_pc
    /\ task_pc[task] = "constructed"
    /\ LET r == AssertConservative(attrs.CONSERVATIVE)
       IN  IF r.status = "ok"
           THEN /\ task_pc' = [task_pc EXCEPT ![task] = "asserted"]
                /\ checked' = checked \cup {task}
                /\ UNCHANGED <<pc, failure>>
           ELSE /\ Fail("assert", task, r.status)
                /\ task_pc' = [task_pc EXCEPT ![task] = "raised"]
                /\ UNCHANGED checked
    /\ UNCHANGED <<eq, eq_out, FLAGS, attrs, times, exact_filter_interval, seeds,
                   integrated, results, acc1, combined1, sorted1, acc2,
                   combined2, sorted2, output>>

\* the integrator call follows the assertion in the function body
ReadyToIntegrate(task) == task_pc[task] = "asserted"

\* the equation a task holds once create_equation returned
EquationOf(task) ==
    CreateEquation(FLAGS.equation_name, task[1], FLAGS.equation_kwargs).value

\* the element a task returns: the solution with its two scalar coordinates
\* set (the key of the (seed, result) pair is the sample coordinate); id keeps
\* apart the equal results of an order listed twice
TaskResult(task, solution) ==
    [sample |-> task[1], accuracy_order |-> AccuracyOrderOf(task),
     data |-> solution, id |-> task]

\* create_equation_and_integrate from `result = integrate_baseline(...)` to
\* its return
TaskIntegrate(task) ==
    /\ pc = "running"
    /\ task \in DOMAIN task_pc
    /\ ReadyToIntegrate(task)
    /\ integrated' = integrated \cup
         {[task |-> task, accuracy_order |-> AccuracyOrderOf(task),
           times |-> times, exact_filter_interval |-> exact_filter_interval]}
    /\ LET r == IntegrateBaseline(EquationOf(task), AccuracyOrderOf(task))
       IN  IF r.status = "ok"
           THEN /\ task_pc' = [task_pc EXCEPT ![task] = "returned"]
                /\ results' = results \cup {TaskResult(task, r.value)}
                /\ UNCHANGED <<pc, failure>>
           ELSE /\ Fail("integrate_baseline", task, r.status)
                /\ task_pc' = [task_pc EXCEPT ![task] = "raised"]
                /\ UNCHANGED results
    /\ UNCHANGED <<eq, eq_out, FLAGS, attrs, times, exact_filter_interval, seeds, checked,
                   acc1, combined1, sorted1, acc2, combined2, sorted2, output>>


-----------------------------------------------------------------------------
(* The two combine stages.  A Beam CombineFn is driven by the runner: it    *)
(* may open several accumulators for a key, add each input to any of them,  *)
(* merge accumulators in any order, and extracts the output of the one      *)
(* accumulator left once every input of the key is in.                      *)
(* xarray_beam.ConcatCombineFn(dim) keeps the datasets added in a list and  *)
(* concatenates them along dim in list order.                               *)

\* Dataset.sortby is a stable sort of the entries along a dimension by their
\* coordinate value: InsertBy puts x in front of the first entry of the sorted
\* `rest` whose coordinate is not smaller
InsertBy(x, rest, coord) ==
    LET k == Cardinality({i \in 1..Len(rest) : rest[i][coord] < x[coord]})
    IN  SubSeq(rest, 1, k) \o <<x>> \o SubSeq(rest, k + 1, Len(rest))

RECURSIVE StableSort(_, _)
StableSort(seq, coord) ==
    IF seq = <<>> THEN <<>>
    ELSE InsertBy(Head(seq), StableSort(Tail(seq), coord), coord)

\* ConcatCombineFn('accuracy_order').extract_output: the results of one sample
\* concatenated along a new accuracy_order dimension, in list order; the
\* sample coordinate, equal in all of them, stays a scalar
ConcatAccuracyOrder(items) ==
    [sample |-> items[1].sample,
     cells |-> [i \in 1..Len(items) |->
                  [accuracy_order |-> items[i].accuracy_order,
                   data |-> items[i].data]]]

\* the per-sample dataset passed on as the runner delivered it
SortByAccuracyOrder_Unsorted(ds) == ds

\* lambda seed_and_ds: seed_and_ds[1].sortby('accuracy_order')
SortByAccuracyOrder(ds) ==
    [ds EXCEPT !.cells = StableSort(ds.cells, "accuracy_order")]

\* ConcatCombineFn('sample').extract_output: the per-sample datasets
\* concatenated along a new sample dimension, in list order
ConcatSample(items) == items

\* the combined dataset passed on as the runner delivered it
SortBySample_Unsorted(ds) == ds

\* lambda ds: ds.sortby('sample')
SortBySample(ds) == StableSort(ds, "sample")

\* the accumulators open for a key
AccumulatorsOf(key) == {a \in acc1 : a.key = key}

\* CombinePerKey: create_accumulator / add_input for one Map output
AddInput1(e) ==
    /\ pc = "running"
    /\ e \in results
    /\ results' = results \ {e}
    /\ \/ acc1' = acc1 \cup {[key |-> e.sample, items |-> <<e>>]}
       \/ \E a \in AccumulatorsOf(e.sample) :
            acc1' = (acc1 \ {a}) \cup {[a EXCEPT !.items = Append(@, e)]}
    /\ UNCHANGED <<eq, eq_out, pc, FLAGS, attrs, times, exact_filter_interval, seeds,
                   task_pc, checked, integrated, failure, combined1, sorted1,
                   acc2, combined2, sorted2, output>>

\* CombinePerKey: merge_accumulators of two accumulators of a key
Merge1(a, b) ==
    /\ pc = "running"
    /\ a \in acc1 /\ b \in acc1
    /\ a # b /\ a.key = b.key
    /\ acc1' = (acc1 \ {a, b}) \cup {[key |-> a.key, items |-> a.items \o b.items]}
    /\ UNCHANGED <<eq, eq_out, pc, FLAGS, attrs, times, exact_filter_interval, seeds,
                   task_pc, checked, integrated, failure, results, combined1,
                   sorted1, acc2, combined2, sorted2, output>>

\* every input of the key has been added: its seed went through the FlatMap
\* and each of its tasks returned a result that is in an accumulator
KeyComplete(key) ==
    /\ key \notin seeds
    /\ \A t \in TasksOf(key) : t \in DOMAIN task_pc /\ task_pc[t] = "returned"
    /\ \A e \in results : e.sample # key

\* CombinePerKey: extract_output for a key
Extract1(a) ==
    /\ pc = "running"
    /\ a \in acc1
    /\ AccumulatorsOf(a.key) = {a}
    /\ KeyComplete(a.key)
    /\ acc1' = acc1 \ {a}
    /\ combined1' = combined1 \cup
         {[key |-> a.key, ds |-> ConcatAccuracyOrder(a.items)]}
    /\ UNCHANGED <<eq, eq_out, pc, FLAGS, attrs, times, exact_filter_interval, seeds,
                   task_pc, checked, integrated, failure, results, sorted1,
                   acc2, combined2, sorted2, output>>

\* beam.Map(lambda seed_and_ds: seed_and_ds[1].sortby('accuracy_order'))
Sort1(d) ==
    /\ pc = "running"
    /\ d \in combined1
    /\ combined1' = combined1 \ {d}
    /\ sorted1' = sorted1 \cup {SortByAccuracyOrder(d.ds)}
    /\ UNCHANGED <<eq, eq_out, pc, FLAGS, attrs, times, exact_filter_interval, seeds,
                   task_pc, checked, integrated, failure, results, acc1,
                   acc2, combined2, sorted2, output>>

\* CombineGlobally: create_accumulator / add_input for one per-sample dataset
AddInput2(ds) ==
    /\ pc = "running"
    /\ ds \in sorted1
    /\ sorted1' = sorted1 \ {ds}
    /\ \/ acc2' = acc2 \cup {<<ds>>}
       \/ \E a \in acc2 : acc2' = (acc2 \ {a}) \cup {Append(a, ds)}
    /\ UNCHANGED <<eq, eq_out, pc, FLAGS, attrs, times, exact_filter_interval, seeds,
                   task_pc, checked, integrated, failure, results, acc1,
                   combined1, combined2, sorted2, output>>

\* CombineGlobally: merge_accumulators of two accumulators
Merge2(a, b) ==
    /\ pc = "running"
    /\ a \in acc2 /\ b \in acc2
    /\ a # b
    /\ acc2' = (acc2 \ {a, b}) \cup {a \o b}
    /\ UNCHANGED <<eq, eq_out, pc, FLAGS, attrs, times, exact_filter_interval, seeds,
                   task_pc, checked, integrated, failure, results, acc1,
                   combined1, sorted1, combined2, sorted2, output>>

\* every per-sample dataset is in a global accumulator
AllSamplesIn ==
    /\ seeds = {}
    /\ \A t \in DOMAIN task_pc : task_pc[t] = "returned"
    /\ results = {} /\ acc1 = {} /\ combined1 = {} /\ sorted1 = {}

\* CombineGlobally: extract_output
Extract2(a) ==
    /\ pc = "running"
    /\ acc2 = {a}
    /\ AllSamplesIn
    /\ acc2' = {}
    /\ combined2' = {ConcatSample(a)}
    /\ UNCHANGED <<eq, eq_out, pc, FLAGS, attrs, times, exact_filter_interval, seeds,
                   task_pc, checked, integrated, failure, results, acc1,
                   combined1, sorted1, sorted2, output>>

\* beam.Map(lambda ds: ds.sortby('sample'))
Sort2(ds) ==
    /\ pc = "running"
    /\ ds \in combined2
    /\ combined2' = {}
    /\ sorted2' = {SortBySample(ds)}
    /\ UNCHANGED <<eq, eq_out, pc, FLAGS, attrs, times, exact_filter_interval, seeds,
                   task_pc, checked, integrated, failure, results, acc1,
                   combined1, sorted1, acc2, output>>

\* beam.Map(xarray_beam.write_netcdf, path=FLAGS.output_path)
Write(ds) ==
    /\ pc = "running"
    /\ ds \in sorted2
    /\ sorted2' = {}
    /\ output' = ds
    /\ pc' = "written"
    /\ UNCHANGED <<eq, eq_out, FLAGS, attrs, times, exact_filter_interval, seeds, task_pc,
                   checked, integrated, failure, results, acc1, combined1,
                   sorted1, acc2, combined2>>

-----------------------------------------------------------------------------
(* Specifications.                                                         *)

\* the lists of accuracy orders a run may be given
OrderLists ==
    UNION {[1..n -> OrderVals] : n \in 1..MaxOrders}

Next ==
    \/ Main
    \/ \E seed \in seeds : FlatMap(seed)
    \/ \E task \in DOMAIN task_pc : TaskCreateEquation(task)
    \/ \E task \in DOMAIN task_pc : TaskAssertConservative(task)
    \/ \E task \in DOMAIN task_pc : TaskIntegrate(task)
    \/ \E e \in results : AddInput1(e)
    \/ \E a \in acc1, b \in acc1 : Merge1(a, b)
    \/ \E a \in acc1 : Extract1(a)
    \/ \E d \in combined1 : Sort1(d)
    \/ \E ds \in sorted1 : AddInput2(ds)
    \/ \E a \in acc2, b \in acc2 : Merge2(a, b)
    \/ \E a \in acc2 : Extract2(a)
    \/ \E ds \in combined2 : Sort2(ds)
    \/ \E ds \in sorted2 : Write(ds)

\* main() entered over equation names, keyword maps, sample counts and lists
\* of accuracy orders, with the time flags at their defaults; no
\* equation-level call is in progress
Init ==
    /\ InitEq
    /\ InitPipe(EquationNames, KwargsChoices,
                {"AttributeError", "False", "True"},
                {"AttributeError", "POLYNOMIAL"}, {0},
                {DefaultTimeMax}, {DefaultTimeDelta},
                1..MaxSamples, OrderLists)

Spec == Init /\ [][Next]_vars

\* main() entered over the time flags, the exact-filter flag and both class
\* attributes, for the default equation and accuracy orders
InitArgs ==
    /\ InitEq
    /\ InitPipe({"burgers"}, {KwargsDefault},
                {"AttributeError", "False", "True"},
                {"AttributeError", "POLYNOMIAL", "SPECTRAL"}, {0, 1},
                0..MaxTime, 1..MaxDelta,
                1..MaxSamples, {DefaultAccuracyOrders})

SpecArgs == InitArgs /\ [][Next]_vars

\* no pipeline is running while equation-level calls are evaluated
InitCalls ==
    /\ InitEq
    /\ InitPipe({"burgers"}, {KwargsDefault}, {"True"}, {"POLYNOMIAL"}, {0},
                {DefaultTimeMax}, {DefaultTimeDelta}, {1},
                {DefaultAccuracyOrders})

NextCalls ==
    \/ CallEquationOfMotion
    \/ CallFinalizeTimeDerivative
    \/ CallFixedFirstDerivative

SpecCalls == InitCalls /\ [][NextCalls]_vars


-----------------------------------------------------------------------------
(* Properties of the pipeline.                                             *)

StrictlyIncreasing(seq) == \A i \in 1..(Len(seq) - 1) : seq[i] < seq[i + 1]
NonDecreasing(seq) == \A i \in 1..(Len(seq) - 1) : seq[i] <= seq[i + 1]
NoRepeats(seq) == \A i, j \in 1..Len(seq) : seq[i] = seq[j] => i = j

\* the coordinates of the dataset handed to write_netcdf
SampleCoordinate(ds) == [i \in 1..Len(ds) |-> ds[i].sample]
AccuracyOrderCoordinate(row) ==
    [j \in 1..Len(row.cells) |-> row.cells[j].accuracy_order]

\* the positions of the entries of a dataset
Cells(ds) ==
    UNION {{<<i, j>> : j \in 1..Len(ds[i].cells)} : i \in 1..Len(ds)}

\* how often the pair (sample, accuracy_order) occurs in a dataset
Occurrences(ds, sample, order) ==
    Cardinality({c \in Cells(ds) :
                    /\ ds[c[1]].sample = sample
                    /\ ds[c[1]].cells[c[2]].accuracy_order = order})

CellCount(ds) == Cardinality(Cells(ds))

\* the list in increasing order, by rank
Ranked(list) ==
    [k \in 1..Len(list) |->
        CHOOSE v \in Range(list) :
            /\ Cardinality({i \in 1..Len(list) : list[i] < v}) < k
            /\ k <= Cardinality({i \in 1..Len(list) : list[i] <= v})]

\* the dataset the flags determine: samples 0..n-1 in order, each with the
\* solutions of the requested orders in increasing order
ExpectedDataset ==
    [s \in 1..FLAGS.num_samples |->
        [sample |-> s - 1,
         cells |-> [k \in 1..Len(FLAGS.accuracy_orders) |->
                      [accuracy_order |-> Ranked(FLAGS.accuracy_orders)[k],
                       data |-> [cls |-> CONSERVATIVE_EQUATION_TYPES(FLAGS.equation_name),
                                 seed |-> s - 1,
                                 order |-> Ranked(FLAGS.accuracy_orders)[k]]]]]]

MalformedForConstructor ==
    LET keys == DOMAIN FLAGS.equation_kwargs
        burgers == FLAGS.equation_name = "burgers"
    IN  \/ "resolution" \in keys
        \/ ("eta" \in keys /\ ~burgers)
        \/ FLAGS.equation_kwargs["num_points"] = "str"

\* an unknown key or a wrongly typed value
Malformed ==
    \/ MalformedForConstructor
    \/ \E k \in DOMAIN FLAGS.equation_kwargs : FLAGS.equation_kwargs[k] = "str"

C7_CheckedThenIntegrated ==
    /\ \A c \in integrated : c.task \in checked
    /\ attrs.CONSERVATIVE # "True" => integrated = {}
    /\ (attrs.CONSERVATIVE =
           AsGiven(CONSERVATIVE_EQUATION_TYPES(FLAGS.equation_name), "CONSERVATIVE"))
          => failure.stage # "assert"

-----------------------------------------------------------------------------
(* Properties of the equation classes.                                     *)

ConservativeClasses ==
    {CONSERVATIVE_EQUATION_TYPES(name) : name \in EquationNames}

\* y[i] with the index taken modulo the length, i counted from 0
At(y, i) == y[(i % Len(y)) + 1]

\* C5 as stated: for the conservative KdV variant finalize_time_derivative
\* returns y_t unchanged.
C5_ConservativeKdVIdentity ==
    (eq.op = "finalize_time_derivative" /\ eq.cls = "ConservativeKdVEquation") =>
        eq_out = Ok(eq.y)

\* C5 amended: for the conservative KdV variant finalize_time_derivative is the
\* 3-point smoothing inherited from the plain KdV variant: element i of the
\* result is 0.25 * y_t[i-1] + 0.5 * y_t[i] + 0.25 * y_t[i+1], indices periodic.
C5_ConservativeKdVSmoothing ==
    (eq.op = "finalize_time_derivative" /\ eq.cls = "ConservativeKdVEquation") =>
        /\ eq_out.status = "ok"
        /\ Len(eq_out.value) = Len(eq.y)
        /\ \A i \in 0..(Len(eq.y) - 1) :
              eq_out.value[i + 1] =
                 RAdd(RAdd(RMul(Rat(1, 4), At(eq.y, i - 1)),
                           RMul(Rat(1, 2), At(eq.y, i))),
                      RMul(Rat(1, 4), At(eq.y, i + 1)))

\* the conservative KdV variant finalized an array and changed it
C5_Witness ==
    /\ eq.op = "finalize_time_derivative"
    /\ eq.cls = "ConservativeKdVEquation"
    /\ eq_out.status = "ok"
    /\ eq_out.value # eq.y

\* C8: _fixed_first_derivative(flux, dx) has the length n of flux and its
\* element i is (flux[(i+1) mod n] - flux[i]) / dx, so the last element
\* differences flux[0] against flux[n-1].
C8_PeriodicForwardDifference ==
    eq.op = "_fixed_first_derivative" =>
        /\ eq_out.status = "ok"
        /\ Len(eq_out.value) = Len(eq.y)
        /\ \A i \in 0..(Len(eq.y) - 1) :
              eq_out.value[i + 1] =
                 RDiv(RSub(At(eq.y, i + 1), At(eq.y, i)), eq.dx)

\* a flux of several points whose ends differ was differenced: the last
\* element of the result shows the wraparound
C8_Witness ==
    /\ eq.op = "_fixed_first_derivative"
    /\ Len(eq.y) >= 2
    /\ eq.y[Len(eq.y)] # eq.y[1]
    /\ eq_out.value[Len(eq.y)] # RInt(0)

\* C9: for each of the six concrete variants DERIVATIVE_ORDERS is non-empty and
\* is exactly the set of keys equation_of_motion reads: the call raises
\* KeyError exactly when the mapping lacks a declared order.
C9_DerivativeOrdersAreTheKeysRead ==
    (eq.op = "equation_of_motion" /\ eq.cls \in ConcreteClasses) =>
        /\ DERIVATIVE_ORDERS(eq.cls) # <<>>
        /\ eq_out.status \in {"ok", "KeyError"}
        /\ eq_out.status = "KeyError" <=>
              ~(Range(DERIVATIVE_ORDERS(eq.cls)) \subseteq DOMAIN eq.sd)

\* a variant was evaluated on a mapping holding exactly its declared orders
C9_Witness ==
    /\ eq.op = "equation_of_motion"
    /\ eq.cls = "ConservativeKSEquation"
    /\ DOMAIN eq.sd = Range(DERIVATIVE_ORDERS(eq.cls))
    /\ eq_out.status = "ok"

\* C10: for every conservative variant and every choice of the derivative
\* inputs, the values equation_of_motion returns sum to zero over the grid.
C10_DiscreteConservation ==
    (/\ eq.op = "equation_of_motion"
     /\ eq.cls \in ConservativeClasses
     /\ eq_out.status = "ok") =>
        ASum(eq_out.value) = RInt(0)

\* a conservative variant returned a time derivative that is not zero everywhere
C10_Witness ==
    /\ eq.op = "equation_of_motion"
    /\ eq.cls \in ConservativeClasses
    /\ eq_out.status = "ok"
    /\ \E i \in 1..Len(eq_out.value) : eq_out.value[i] # RInt(0)

=============================================================================
